---- MODULE Spec2Model ----
(***************************************************************************)
(* A model of tui-counters (src/src/app.rs): the App state, the run loop   *)
(* (draw, read one event, handle_key) and the save of the counter list.    *)
(*                                                                         *)
(* Indices are 0-based as in the Rust code; counters[i + 1] is the Rust    *)
(* counters[i].  An Option is a sequence of length at most one.            *)
(* Integers are scaled: a count has IntBits bits (i64 in the code), the    *)
(* parsed buffer value IntBits bits unsigned (u64 in the code).            *)
(* The terminal is taken to work: terminal.draw and event::read return Ok. *)
(***************************************************************************)
EXTENDS Integers, Sequences, FiniteSets, TLC

VARIABLES
    counters,        \* App.counter_list.counters : Vec<Counter>
    selected,        \* App.counter_list.state.selected : Option<usize>
    input_mode,      \* App.input_mode
    should_exit,     \* App.should_exit
    save_state,      \* App.save_state
    fs,              \* the file at the save path
    end_message,     \* run's local end_message
    pc,              \* where run is: "draw", "read", "done", "panicked"
    last,            \* history: what the dispatch since the last draw did, and
                     \* the length of the text an Esc discarded
    shadow,          \* history: the in-memory state had every save succeeded
    failed           \* history: the failed saves so far, the last one's text, and
                     \* whether a save has succeeded since

vars == <<counters, selected, input_mode, should_exit, save_state, fs,
          end_message, pc, last, shadow, failed>>

----------------------------------------------------------------------------
(* Bounds *)

\* the width of a count in bits (64 in the code)
IntBits == 2
\* the longest counter list the model builds
MaxCounters == 2
\* the longest name typed for a new counter
MaxName == 1
\* the longest text typed in Adding mode, in a session without a save target
MaxDigits == 2
\* the longest text typed in Adding mode, in a session with a save target
MaxDigitsSaved == 1
\* the largest in-range-or-not index select_next is driven to
MaxSelected == 2
\* the most saves the environment lets fail in one session
MaxFailures == 1

----------------------------------------------------------------------------
(* Options, integers *)

None == <<>>
Some(x) == <<x>>

\* usize::MAX, what select_previous yields for no selection: above every index
UsizeMax == 2^30

I64Min == -(2^(IntBits - 1))
I64Max == 2^(IntBits - 1) - 1
U64Max == 2^IntBits - 1

\* `value as i64`: the two's complement reinterpretation
as_i64(v) == ((v + 2^(IntBits - 1)) % 2^IntBits) - 2^(IntBits - 1)

\* `count += d` / `count -= d` on an i64: [panic, v, overflowed].  On
\* overflow the build decides: a panic with overflow checks (a debug build), a
\* wrap without them (a release build).
add_assign(count, d, overflow_checks) ==
    LET r == count + d IN
    IF r >= I64Min /\ r <= I64Max THEN [panic |-> FALSE, v |-> r, overflowed |-> FALSE]
    ELSE IF overflow_checks THEN [panic |-> TRUE, v |-> count, overflowed |-> TRUE]
    ELSE [panic |-> FALSE, v |-> as_i64(r), overflowed |-> TRUE]

----------------------------------------------------------------------------
(* Keys *)

\* a character that is numeric (char::is_numeric) but no ASCII digit
ArabicThree == "U+0663"
AsciiDigits == {"1", "3"}
CommandChars == {"k", "j", "l", ";", "q", "n", "d", "a", "s"}
Chars == CommandChars \cup AsciiDigits \cup {ArabicThree}
KeyCodes == {"Up", "Down", "Left", "Right", "Enter", "Esc", "Backspace", "Tab"} \cup Chars
KeyKinds == {"Press", "Release", "Repeat"}

is_numeric(c) == c \in AsciiDigits \cup {ArabicThree}

DigitValue(c) == IF c = "1" THEN 1 ELSE 3

\* u64::from_str: None for an empty string, for a character that is no ASCII
\* digit and for a value above u64::MAX
RECURSIVE ParseDigits(_, _)
ParseDigits(s, acc) ==
    IF s = <<>> THEN Some(acc)
    ELSE IF Head(s) \notin AsciiDigits THEN None
    ELSE LET v == acc * 10 + DigitValue(Head(s)) IN
         IF v > U64Max THEN None ELSE ParseDigits(Tail(s), v)

u64_from_str(s) == IF s = <<>> THEN None ELSE ParseDigits(s, 0)

----------------------------------------------------------------------------
(* tui_input::Input: the text and the cursor *)

\* a variant of Input::default that holds a text
Input_with_text == [value |-> <<"1">>, cursor |-> 1]

Input_default == [value |-> <<>>, cursor |-> 0]

Input_reset(input) == [value |-> <<>>, cursor |-> 0]

InsertChar(input, c) ==
    [value  |-> SubSeq(input.value, 1, input.cursor) \o <<c>>
                \o SubSeq(input.value, input.cursor + 1, Len(input.value)),
     cursor |-> input.cursor + 1]

DeletePrevChar(input) ==
    IF input.cursor = 0 THEN input
    ELSE [value  |-> SubSeq(input.value, 1, input.cursor - 1)
                     \o SubSeq(input.value, input.cursor + 1, Len(input.value)),
          cursor |-> input.cursor - 1]

GoToPrevChar(input) ==
    IF input.cursor = 0 THEN input ELSE [input EXCEPT !.cursor = @ - 1]

GoToNextChar(input) ==
    IF input.cursor = Len(input.value) THEN input ELSE [input EXCEPT !.cursor = @ + 1]

\* input.handle_event(&Event::Key(key)) for a key press without modifiers
Input_handle_event(input, code) ==
    IF code \in Chars THEN InsertChar(input, code)
    ELSE IF code = "Backspace" THEN DeletePrevChar(input)
    ELSE IF code = "Left" THEN GoToPrevChar(input)
    ELSE IF code = "Right" THEN GoToNextChar(input)
    ELSE input

----------------------------------------------------------------------------
(* Counter, ListState, the list widget *)

Counter_new(name) == [name |-> name, count |-> 0]

select_previous(sel) ==
    IF sel = None THEN Some(UsizeMax)
    ELSE Some(IF sel[1] = 0 THEN 0 ELSE sel[1] - 1)

select_next(sel) ==
    IF sel = None THEN Some(0)
    ELSE Some(IF sel[1] = UsizeMax THEN UsizeMax ELSE sel[1] + 1)

\* StatefulWidget::render(list, area, buf, &mut state): nothing for an empty
\* list area; no selection for no items; an index past the end is set to the
\* last item
render_list(cs, sel, area_empty) ==
    IF area_empty THEN sel
    ELSE IF cs = <<>> THEN None
    ELSE IF sel # None /\ sel[1] >= Len(cs) THEN Some(Len(cs) - 1)
    ELSE sel

\* Vec::get_mut(index)
InRange(cs, index) == index < Len(cs)

\* a variant of Vec::push that puts the counter first
Vec_push_front(cs, c) == <<c>> \o cs

\* Vec::push(counter)
Vec_push(cs, c) == Append(cs, c)

\* a variant of Vec::remove that drops the last counter, whatever the index
Vec_remove_last(cs, index) == SubSeq(cs, 1, Len(cs) - 1)

\* Vec::remove(index), for an index in range
Vec_remove(cs, index) ==
    SubSeq(cs, 1, index) \o SubSeq(cs, index + 2, Len(cs))

----------------------------------------------------------------------------
(* The file at the save path, and App::save *)

NoFile == [exists |-> FALSE, valid |-> FALSE, doc |-> <<>>]

\* serde: a Counter as the JSON object {"name": .., "count": ..}
Counter_to_json(c) == <<<<"name", c.name>>, <<"count", c.count>>>>
Counter_from_json(o) == [name |-> o[1][2], count |-> o[2][2]]

\* serde_json::to_writer_pretty(file, &counters): the JSON array, in order
to_writer_pretty(cs) == [i \in 1..Len(cs) |-> Counter_to_json(cs[i])]
\* serde_json::from_reader(file)
from_reader(doc) == [i \in 1..Len(doc) |-> Counter_from_json(doc[i])]

FailedToOpen == "Failed to open file"

SaveOutcomes == {"ok", "create_fails", "write_fails"}

\* a variant of save that writes the file whether or not there is a save target
save_always(cs, st, file, outcome) ==
    [ret |-> "Ok", msg |-> "",
     fs |-> [exists |-> TRUE, valid |-> TRUE, doc |-> to_writer_pretty(cs)],
     called |-> st # "DoNotSave"]

\* a variant of save that reports success without replacing the file's contents
save_stale(cs, st, file, outcome) ==
    IF st = "DoNotSave"
    THEN [ret |-> "Ok", msg |-> "", fs |-> file, called |-> FALSE]
    ELSE IF outcome = "ok"
    THEN [ret |-> "Ok", msg |-> "", fs |-> [file EXCEPT !.exists = TRUE], called |-> TRUE]
    ELSE [ret |-> "Err", msg |-> FailedToOpen, fs |-> file, called |-> TRUE]

\* App::save under what the file system does: [ret, fs, called, msg].
\* File::create truncates the file before the write.
save(cs, st, file, outcome) ==
    IF st = "DoNotSave"
    THEN [ret |-> "Ok", msg |-> "", fs |-> file, called |-> FALSE]
    ELSE IF outcome = "create_fails"
    THEN [ret |-> "Err", msg |-> FailedToOpen, fs |-> file, called |-> TRUE]
    ELSE IF outcome = "write_fails"
    THEN [ret |-> "Err", msg |-> FailedToOpen,
          fs |-> [exists |-> TRUE, valid |-> FALSE, doc |-> <<>>], called |-> TRUE]
    ELSE [ret |-> "Ok", msg |-> "",
          fs |-> [exists |-> TRUE, valid |-> TRUE, doc |-> to_writer_pretty(cs)],
          called |-> TRUE]

----------------------------------------------------------------------------
(* App::handle_key.  self is [counters, selected, input_mode, should_exit];
   env is what the surroundings decide: [save], the outcome of a save, and
   [overflow_checks], the build.  The result is [self, op, ret, msg, fs,
   called, overflowed]: the App afterwards, the arm of the match that ran,
   "Ok", "Err" or "Panic", the error's text, the file afterwards, whether
   save was called with a save target and whether an addition overflowed. *)

Normal == [kind |-> "Normal"]
NewCounter(input) == [kind |-> "NewCounter", input |-> input]
Adding(input, sign) == [kind |-> "Adding", input |-> input, sign |-> sign]

Ret(op, self, file) ==
    [self |-> self, op |-> op, ret |-> "Ok", msg |-> "", fs |-> file,
     called |-> FALSE, overflowed |-> FALSE]
Panic(op, self, file, overflowed) ==
    [self |-> self, op |-> op, ret |-> "Panic", msg |-> "", fs |-> file,
     called |-> FALSE, overflowed |-> overflowed]

\* the `self.save()?` that ends an arm
SaveAndReturn(op, self, st, file, env, overflowed) ==
    LET r == save(self.counters, st, file, env.save) IN
    [self |-> self, op |-> op, ret |-> r.ret, msg |-> r.msg, fs |-> r.fs,
     called |-> r.called, overflowed |-> overflowed]

\* lines 151-170: Right | 'l' (d = 1) and Left | ';' (d = -1)
step_counter(self, d, st, file, env) ==
    LET op == IF d = 1 THEN "increment" ELSE "decrement" IN
    IF self.selected # None /\ InRange(self.counters, self.selected[1])
    THEN LET i == self.selected[1] + 1
             r == add_assign(self.counters[i].count, d, env.overflow_checks) IN
         IF r.panic THEN Panic(op, self, file, TRUE)
         ELSE SaveAndReturn(op, [self EXCEPT !.counters[i].count = r.v],
                            st, file, env, r.overflowed)
    ELSE SaveAndReturn(op, self, st, file, env, FALSE)

\* lines 173-181: 'd'.  Vec::remove panics for an index out of bounds.
delete_counter(self, st, file, env) ==
    IF self.selected = None THEN SaveAndReturn("delete", self, st, file, env, FALSE)
    ELSE IF ~InRange(self.counters, self.selected[1]) THEN Panic("delete", self, file, FALSE)
    ELSE SaveAndReturn("delete", [self EXCEPT !.counters = Vec_remove(@, self.selected[1])],
                       st, file, env, FALSE)

\* lines 148-186
handle_key_Normal(self, code, st, file, env) ==
    IF code \in {"Up", "k"}
    THEN Ret("previous", [self EXCEPT !.selected = select_previous(@)], file)
    ELSE IF code \in {"Down", "j"}
    THEN Ret("next", [self EXCEPT !.selected = select_next(@)], file)
    ELSE IF code \in {"Right", "l"} THEN step_counter(self, 1, st, file, env)
    ELSE IF code \in {"Left", ";"} THEN step_counter(self, -1, st, file, env)
    ELSE IF code = "q" THEN Ret("quit", [self EXCEPT !.should_exit = TRUE], file)
    ELSE IF code = "n"
    THEN Ret("new", [self EXCEPT !.input_mode = NewCounter(Input_default)], file)
    ELSE IF code = "d" THEN delete_counter(self, st, file, env)
    ELSE IF code = "Esc" THEN Ret("deselect", [self EXCEPT !.selected = None], file)
    ELSE IF code = "a"
    THEN Ret("adding", [self EXCEPT !.input_mode = Adding(Input_default, "Positive")], file)
    ELSE IF code = "s"
    THEN Ret("adding", [self EXCEPT !.input_mode = Adding(Input_default, "Negative")], file)
    ELSE Ret("none", self, file)

\* a variant of create_counter that returns to Normal mode
create_counter_to_normal(self, st, file, env) ==
    SaveAndReturn("create",
                  [self EXCEPT !.counters = Vec_push(@, Counter_new(self.input_mode.input.value)),
                               !.input_mode = Normal],
                  st, file, env, FALSE)

\* lines 189-193: Enter in NewCounter
create_counter(self, st, file, env) ==
    LET input == self.input_mode.input IN
    SaveAndReturn("create",
                  [self EXCEPT !.counters = Vec_push(@, Counter_new(input.value)),
                               !.input_mode = NewCounter(Input_reset(input))],
                  st, file, env, FALSE)

\* lines 187-197
handle_key_NewCounter(self, code, st, file, env) ==
    IF code = "Esc" THEN Ret("cancel", [self EXCEPT !.input_mode = Normal], file)
    ELSE IF code = "Enter" THEN create_counter(self, st, file, env)
    ELSE Ret("edit", [self EXCEPT !.input_mode.input = Input_handle_event(@, code)], file)

\* lines 208-224: Enter in Adding
apply_adding(self, st, file, env) ==
    IF self.selected # None /\ InRange(self.counters, self.selected[1])
    THEN LET i == self.selected[1] + 1
             input == self.input_mode.input
             sign == self.input_mode.sign
             value == u64_from_str(input.value) IN
         IF value = None THEN Panic("apply", self, file, FALSE)
         ELSE LET r == add_assign(self.counters[i].count,
                                  IF sign = "Positive" THEN as_i64(value[1])
                                  ELSE -as_i64(value[1]),
                                  env.overflow_checks) IN
              IF r.panic THEN Panic("apply", self, file, TRUE)
              ELSE SaveAndReturn("apply",
                                 [self EXCEPT !.counters[i].count = r.v,
                                              !.input_mode = Adding(Input_reset(input), sign)],
                                 st, file, env, r.overflowed)
    ELSE Ret("apply", self, file)

\* a variant of handle_key_Adding in which a and s start a new text
handle_key_Adding_fresh(self, code, st, file, env) ==
    IF code \in {"Up", "k"}
    THEN Ret("previous", [self EXCEPT !.selected = select_previous(@)], file)
    ELSE IF code \in {"Down", "j"}
    THEN Ret("next", [self EXCEPT !.selected = select_next(@)], file)
    ELSE IF code \in Chars /\ is_numeric(code)
    THEN Ret("edit", [self EXCEPT !.input_mode.input = Input_handle_event(@, code)], file)
    ELSE IF code \in {"Right", "Left", "Backspace"}
    THEN Ret("edit", [self EXCEPT !.input_mode.input = Input_handle_event(@, code)], file)
    ELSE IF code = "Esc" THEN Ret("cancel", [self EXCEPT !.input_mode = Normal], file)
    ELSE IF code = "Enter" THEN apply_adding(self, st, file, env)
    ELSE IF code = "a"
    THEN Ret("sign", [self EXCEPT !.input_mode = Adding(Input_default, "Positive")], file)
    ELSE IF code = "s"
    THEN Ret("sign", [self EXCEPT !.input_mode = Adding(Input_default, "Negative")], file)
    ELSE Ret("none", self, file)

\* lines 198-228
handle_key_Adding(self, code, st, file, env) ==
    IF code \in {"Up", "k"}
    THEN Ret("previous", [self EXCEPT !.selected = select_previous(@)], file)
    ELSE IF code \in {"Down", "j"}
    THEN Ret("next", [self EXCEPT !.selected = select_next(@)], file)
    ELSE IF code \in Chars /\ is_numeric(code)
    THEN Ret("edit", [self EXCEPT !.input_mode.input = Input_handle_event(@, code)], file)
    ELSE IF code \in {"Right", "Left", "Backspace"}
    THEN Ret("edit", [self EXCEPT !.input_mode.input = Input_handle_event(@, code)], file)
    ELSE IF code = "Esc" THEN Ret("cancel", [self EXCEPT !.input_mode = Normal], file)
    ELSE IF code = "Enter" THEN apply_adding(self, st, file, env)
    ELSE IF code = "a"
    THEN Ret("sign", [self EXCEPT !.input_mode = Adding(@.input, "Positive")], file)
    ELSE IF code = "s"
    THEN Ret("sign", [self EXCEPT !.input_mode = Adding(@.input, "Negative")], file)
    ELSE Ret("none", self, file)

\* a variant of handle_key that acts on a key event of any kind
handle_key_any_kind(self, key, st, file, env) ==
    IF self.input_mode.kind = "Normal"
    THEN handle_key_Normal(self, key.code, st, file, env)
    ELSE IF self.input_mode.kind = "NewCounter"
    THEN handle_key_NewCounter(self, key.code, st, file, env)
    ELSE handle_key_Adding(self, key.code, st, file, env)

\* a variant of handle_key that undoes its change when the save fails
handle_key_rollback(self, key, st, file, env) ==
    LET r == IF key.kind # "Press" THEN Ret("ignored", self, file)
             ELSE IF self.input_mode.kind = "Normal"
             THEN handle_key_Normal(self, key.code, st, file, env)
             ELSE IF self.input_mode.kind = "NewCounter"
             THEN handle_key_NewCounter(self, key.code, st, file, env)
             ELSE handle_key_Adding(self, key.code, st, file, env) IN
    IF r.ret = "Err" THEN [r EXCEPT !.self = self] ELSE r

\* lines 143-231
handle_key(self, key, st, file, env) ==
    IF key.kind # "Press" THEN Ret("ignored", self, file)
    ELSE IF self.input_mode.kind = "Normal"
    THEN handle_key_Normal(self, key.code, st, file, env)
    ELSE IF self.input_mode.kind = "NewCounter"
    THEN handle_key_NewCounter(self, key.code, st, file, env)
    ELSE handle_key_Adding(self, key.code, st, file, env)

----------------------------------------------------------------------------
(* Construction *)

\* App::make_temporary
make_temporary ==
    [counters |-> <<>>, save_state |-> "DoNotSave", fs |-> NoFile]

\* App::make_saved, for the file found at the path (a file that does not
\* parse is a setup error: no App)
make_saved(file) ==
    [counters |-> IF file.exists THEN from_reader(file.doc) ELSE <<>>,
     save_state |-> "Save", fs |-> file]

\* the files a saved session starts from
InitialFiles ==
    {NoFile,
     [exists |-> TRUE, valid |-> TRUE,
      doc |-> to_writer_pretty(<<[name |-> <<"n">>, count |-> 1]>>)]}

Sessions == {make_temporary} \cup {make_saved(f) : f \in InitialFiles}

Self == [counters |-> counters, selected |-> selected,
         input_mode |-> input_mode, should_exit |-> should_exit]

NoEvent == [op |-> "-", ret |-> "Ok", called |-> FALSE, discarded |-> 0]

Init ==
    /\ \E a \in Sessions :
          /\ counters = a.counters
          /\ save_state = a.save_state
          /\ fs = a.fs
          /\ shadow = [counters |-> a.counters, selected |-> None,
                       input_mode |-> Normal, should_exit |-> FALSE]
    /\ selected = None
    /\ input_mode = Normal
    /\ should_exit = FALSE
    /\ end_message = ""
    /\ pc = "draw"
    /\ last = NoEvent
    /\ failed = [n |-> 0, msg |-> "", later_ok |-> FALSE]

----------------------------------------------------------------------------
(* App::run *)

\* a variant of capture that forgets the error when a later dispatch succeeds
capture_clearing(message, r) == IF r.ret = "Err" THEN r.msg ELSE ""

\* lines 132-137: the match on handle_key's result
capture(message, r) == IF r.ret = "Err" THEN r.msg ELSE message

Press(code) == [code |-> code, kind |-> "Press"]
\* every key pressed; two keys released or repeated
Keys == {Press(c) : c \in KeyCodes}
        \cup [code : {"Enter", "l"}, kind : KeyKinds \ {"Press"}]

\* the characters the model types into a new counter's name
NameChars == {"n"}
\* the numeric characters the model types in Adding mode
TypedNumerics == AsciiDigits

\* the surroundings that make a difference to a key's dispatch: what the file
\* system does to the save, if the key leads to one, and the build, if an
\* addition overflows
AllOk == [save |-> "ok", overflow_checks |-> FALSE]
Envs(key) ==
    LET p == handle_key(Self, key, save_state, fs, AllOk) IN
    [save : IF p.called /\ failed.n < MaxFailures THEN SaveOutcomes ELSE {"ok"},
     overflow_checks : IF p.overflowed THEN BOOLEAN ELSE {FALSE}]

\* the events the model offers in a state: the bounds on the list, the text
\* and the selection
Offered(key) ==
    key.kind = "Press" =>
      /\ (input_mode.kind = "NewCounter" /\ key.code = "Enter")
            => Len(counters) < MaxCounters
      /\ (input_mode.kind = "NewCounter" /\ key.code \in Chars)
            => (key.code \in NameChars /\ Len(input_mode.input.value) < MaxName)
      /\ (input_mode.kind = "Adding" /\ key.code \in Chars /\ is_numeric(key.code))
            => /\ key.code \in TypedNumerics
               /\ Len(input_mode.input.value)
                     < (IF save_state = "Save" THEN MaxDigitsSaved ELSE MaxDigits)
      /\ (input_mode.kind # "NewCounter" /\ key.code \in {"Down", "j"} /\ selected # None)
            => (selected[1] < MaxSelected \/ selected[1] = UsizeMax)
      /\ (input_mode.kind # "NewCounter" /\ key.code \in {"Up", "k"} /\ selected # None)
            => selected[1] <= MaxSelected

\* a variant of Draw that does not test the exit flag
Draw_unguarded ==
    /\ pc = "draw"
    /\ \E area_empty \in BOOLEAN :
          /\ selected' = render_list(counters, selected, area_empty)
          /\ shadow' = [shadow EXCEPT
                           !.selected = render_list(shadow.counters, @, area_empty)]
    /\ pc' = "read"
    /\ last' = NoEvent
    /\ UNCHANGED <<counters, input_mode, should_exit, save_state, fs,
                   end_message, failed>>

\* lines 129-130: the loop's test, then terminal.draw: the widget's render
Draw ==
    /\ pc = "draw"
    /\ ~should_exit
    /\ \E area_empty \in BOOLEAN :
          /\ selected' = render_list(counters, selected, area_empty)
          /\ shadow' = [shadow EXCEPT
                           !.selected = render_list(shadow.counters, @, area_empty)]
    /\ pc' = "read"
    /\ last' = NoEvent
    /\ UNCHANGED <<counters, input_mode, should_exit, save_state, fs,
                   end_message, failed>>

\* lines 131-138: a key event, dispatched
ReadKey ==
    /\ pc = "read"
    /\ \E key \in {k \in Keys : Offered(k)} :
       \E env \in Envs(key) :
          /\ LET r == handle_key(Self, key, save_state, fs, env)
                 g == handle_key(shadow, key, save_state, fs, [env EXCEPT !.save = "ok"]) IN
             /\ counters' = r.self.counters
             /\ selected' = r.self.selected
             /\ input_mode' = r.self.input_mode
             /\ should_exit' = r.self.should_exit
             /\ fs' = r.fs
             /\ end_message' = capture(end_message, r)
             /\ pc' = IF r.ret = "Panic" THEN "panicked" ELSE "draw"
             /\ last' = [op |-> r.op, ret |-> r.ret, called |-> r.called,
                          discarded |-> IF r.op = "cancel"
                                        THEN Len(input_mode.input.value) ELSE 0]
             /\ shadow' = g.self
             /\ failed' = IF r.ret = "Err"
                          THEN [n |-> failed.n + 1, msg |-> r.msg, later_ok |-> FALSE]
                          ELSE IF r.called /\ failed.n > 0
                          THEN [failed EXCEPT !.later_ok = TRUE]
                          ELSE failed
    /\ UNCHANGED save_state

\* line 131: an event that is no key event (a resize, the mouse)
ReadOther ==
    /\ pc = "read"
    /\ pc' = "draw"
    /\ UNCHANGED <<counters, selected, input_mode, should_exit, save_state, fs,
                   end_message, last, shadow, failed>>

\* lines 129, 140: the loop's test fails, run returns Ok(end_message)
Return ==
    /\ pc = "draw"
    /\ should_exit
    /\ pc' = "done"
    /\ UNCHANGED <<counters, selected, input_mode, should_exit, save_state, fs,
                   end_message, last, shadow, failed>>

Next == Draw \/ ReadKey \/ ReadOther \/ Return

Spec == Init /\ [][Next]_vars

----------------------------------------------------------------------------
(* The run in which every numeric character is typed in Adding mode, the
   non-ASCII one too, and every save succeeds *)

OfferedTyping(key) ==
    IF key.kind = "Press" /\ input_mode.kind = "Adding"
       /\ key.code \in Chars /\ is_numeric(key.code)
    THEN Len(input_mode.input.value) < MaxDigits
    ELSE Offered(key)

EnvsTyping(key) == {env \in Envs(key) : env.save = "ok"}

\* lines 131-138: a key event, dispatched
ReadTyped ==
    /\ pc = "read"
    /\ \E key \in {k \in Keys : OfferedTyping(k)} :
       \E env \in EnvsTyping(key) :
          /\ LET r == handle_key(Self, key, save_state, fs, env) IN
             /\ counters' = r.self.counters
             /\ selected' = r.self.selected
             /\ input_mode' = r.self.input_mode
             /\ should_exit' = r.self.should_exit
             /\ fs' = r.fs
             /\ end_message' = capture(end_message, r)
             /\ pc' = IF r.ret = "Panic" THEN "panicked" ELSE "draw"
             /\ last' = [op |-> r.op, ret |-> r.ret, called |-> r.called,
                          discarded |-> IF r.op = "cancel"
                                        THEN Len(input_mode.input.value) ELSE 0]
             /\ shadow' = r.self
    /\ UNCHANGED <<save_state, failed>>

NextTyping == Draw \/ ReadTyped \/ ReadOther \/ Return

SpecTyping == Init /\ [][NextTyping]_vars

----------------------------------------------------------------------------
(* The claims.  A key's dispatch is looked at in the states in which run
   reads an event, under everything the surroundings may decide. *)

AllEnvs == [save : SaveOutcomes, overflow_checks : BOOLEAN]
Dispatch(key, env) == handle_key(Self, key, save_state, fs, env)
AtRead == pc = "read"
ValidSelection == selected # None /\ selected[1] < Len(counters)

\* the decimal value of a string of ASCII digits, as a number without a width
RECURSIVE DecimalValue(_)
DecimalValue(s) ==
    IF s = <<>> THEN 0
    ELSE 10 * DecimalValue(SubSeq(s, 1, Len(s) - 1)) + DigitValue(s[Len(s)])

AllAsciiDigits(s) == \A i \in 1..Len(s) : s[i] \in AsciiDigits

\* the file holds exactly the list cs: the names and counts, in order
Persisted(file, cs) ==
    /\ file.exists
    /\ file.valid
    /\ Len(file.doc) = Len(cs)
    /\ \A i \in 1..Len(cs) :
          file.doc[i] = <<<<"name", cs[i].name>>, <<"count", cs[i].count>>>>

\* C1: in every reachable state the selection is absent or an index into the
\* counter list, also right after a key is dispatched
C1_SelectionValid ==
    selected = None \/ selected[1] < Len(counters)

\* C2 as claimed: Enter in NewCounter mode and Enter in Adding mode leave the
\* mode at Normal
C2_EnterLeavesNormal ==
    (AtRead /\ input_mode.kind \in {"NewCounter", "Adding"}) =>
        \A env \in AllEnvs :
            LET r == Dispatch(Press("Enter"), env) IN
            r.ret # "Panic" => r.self.input_mode = Normal

\* C2 as amended: Enter in NewCounter mode leaves the mode NewCounter with an
\* empty buffer; Enter in Adding mode leaves the mode Adding with the same
\* sign, the buffer empty when the delta was applied to a selected counter
\* and unchanged when no counter is selected
C2_EnterKeepsMode ==
    AtRead =>
        \A env \in AllEnvs :
            LET r == Dispatch(Press("Enter"), env) IN
            /\ input_mode.kind = "NewCounter" =>
                  /\ r.ret # "Panic"
                  /\ r.self.input_mode = [kind |-> "NewCounter",
                                          input |-> [value |-> <<>>, cursor |-> 0]]
            /\ (input_mode.kind = "Adding" /\ r.ret # "Panic") =>
                  r.self.input_mode =
                      IF ValidSelection
                      THEN [kind |-> "Adding", input |-> [value |-> <<>>, cursor |-> 0],
                            sign |-> input_mode.sign]
                      ELSE input_mode

\* C2's case: a counter named "n" was just created by Enter and the mode is
\* still NewCounter, the buffer empty
C2_Witness ==
    /\ last.op = "create"
    /\ input_mode.kind = "NewCounter"
    /\ input_mode.input.value = <<>>
    /\ counters # <<>>
    /\ counters[Len(counters)].name = <<"n">>

\* C3: Enter in Adding mode with an empty buffer does not crash and leaves
\* every count unchanged, whether or not a counter is selected
C3_EmptyEnterIsNoop ==
    (AtRead /\ input_mode.kind = "Adding" /\ input_mode.input.value = <<>>) =>
        \A env \in AllEnvs :
            LET r == Dispatch(Press("Enter"), env) IN
            r.ret # "Panic" /\ r.self.counters = counters

\* C4: Enter in NewCounter mode with buffer text t appends exactly one counter
\* {name: t, count: 0} at the end and leaves every existing counter as it was
C4_CreateAppends ==
    (AtRead /\ input_mode.kind = "NewCounter") =>
        \A env \in AllEnvs :
            LET r == Dispatch(Press("Enter"), env)
                t == input_mode.input.value IN
            /\ r.ret # "Panic"
            /\ Len(r.self.counters) = Len(counters) + 1
            /\ r.self.counters[Len(counters) + 1] = [name |-> t, count |-> 0]
            /\ \A i \in 1..Len(counters) : r.self.counters[i] = counters[i]

\* C4's case: a second counter, with the empty name, was just created behind
\* a first one named "n" whose count is 1
C4_Witness ==
    /\ last.op = "create"
    /\ Len(counters) = 2
    /\ counters[1] = [name |-> <<"n">>, count |-> 1]
    /\ counters[2] = [name |-> <<>>, count |-> 0]

\* the list with the count at index i (0-based) changed by d, all else kept
Adjusted(cs, i, d) == [cs EXCEPT ![i + 1].count = @ + d]

\* C5: every adjust command changes the selected counter's count by exactly
\* its delta and no other counter: Right/l by +1, Left/; by -1, Enter in
\* Adding mode with a digit buffer of value v by +v or -v
C5_AdjustExact ==
    (AtRead /\ ValidSelection) =>
        \A env \in AllEnvs :
            /\ input_mode.kind = "Normal" =>
                  /\ \A code \in {"Right", "l"} :
                        LET r == Dispatch(Press(code), env) IN
                        r.ret # "Panic" /\ r.self.counters = Adjusted(counters, selected[1], 1)
                  /\ \A code \in {"Left", ";"} :
                        LET r == Dispatch(Press(code), env) IN
                        r.ret # "Panic" /\ r.self.counters = Adjusted(counters, selected[1], -1)
            /\ (/\ input_mode.kind = "Adding"
                /\ input_mode.input.value # <<>>
                /\ AllAsciiDigits(input_mode.input.value)) =>
                  LET r == Dispatch(Press("Enter"), env)
                      v == DecimalValue(input_mode.input.value) IN
                  /\ r.ret # "Panic"
                  /\ r.self.counters =
                        Adjusted(counters, selected[1],
                                 IF input_mode.sign = "Positive" THEN v ELSE -v)

\* C6: with no counter selected or the selection out of range, Right/l, Left/;
\* and d in Normal mode and Enter in Adding mode leave the counter list
\* unchanged and raise no error (here: no panic, and no error when the save
\* succeeds)
C6_NoSelectionIsNoop ==
    (AtRead /\ ~ValidSelection) =>
        \A env \in AllEnvs :
            \A code \in IF input_mode.kind = "Normal" THEN {"Right", "l", "Left", ";", "d"}
                        ELSE IF input_mode.kind = "Adding" THEN {"Enter"} ELSE {} :
                LET r == Dispatch(Press(code), env) IN
                /\ r.ret # "Panic"
                /\ r.self.counters = counters
                /\ env.save = "ok" => r.ret = "Ok"

\* C7: q in Normal mode sets the exit flag; once the flag is set the loop
\* ends: the next step is run's return, no event is read or dispatched, and
\* counters, selection, mode and file never change again
C7_QuitStops ==
    /\ [](AtRead /\ input_mode.kind = "Normal" =>
            \A env \in AllEnvs : Dispatch(Press("q"), env).self.should_exit)
    /\ [](pc = "done" => should_exit)
    /\ [][should_exit =>
            /\ pc' = "done"
            /\ UNCHANGED <<counters, selected, input_mode, should_exit, fs,
                           end_message, last>>]_vars

\* C7's case: run has returned after a q, with a counter in the list
C7_Witness ==
    pc = "done" /\ last.op = "quit" /\ counters # <<>> /\ selected # None

\* C8: a failed save leaves the change made in memory, the loop goes on, every
\* later event is dispatched as if the save had succeeded (the state in memory
\* is the one of the run in which every save succeeds), and every later
\* command that changes the list calls save again
C8_FailedSaveNotFatal ==
    /\ [](shadow = Self)
    /\ [](last.ret = "Err" => (pc = "draw" /\ ~should_exit))
    /\ [][(failed.n > 0 /\ save_state = "Save" /\ counters' # counters)
            => last'.called]_vars

\* C8's case: the save of a command that changed the list failed, the change
\* is in memory and not in the file
C8_Witness ==
    /\ last.ret = "Err"
    /\ last.op = "increment"
    /\ fs.valid
    /\ ~Persisted(fs, counters)
    /\ pc = "draw"

C10_SnapshotFollowsList ==
    /\ []((save_state = "Save" /\ last.called /\ last.ret = "Ok")
            => Persisted(fs, counters))
    /\ [][(save_state = "Save" /\ counters' # counters)
            => (last'.called /\ (last'.ret = "Ok" => Persisted(fs', counters')))]_vars

\* C10's case: after an earlier save had failed, a second counter was just
\* created and saved, and the file holds both counters
C10_Witness ==
    /\ save_state = "Save"
    /\ last.op = "create"
    /\ last.called
    /\ last.ret = "Ok"
    /\ failed.n > 0
    /\ Len(counters) = 2
    /\ Persisted(fs, counters)

\* C11: in a session without a save target no key ever writes the file (it
\* stays as it was at the start: absent), no save error is reported, and the
\* commands that change the list still change it in memory: a create makes
\* the list longer, a delete of a selected counter shorter, and an increment,
\* decrement or applied delta of a selected counter changes the list
C11_EphemeralNeverWrites ==
    /\ [](save_state = "DoNotSave" =>
            /\ fs = NoFile
            /\ end_message = ""
            /\ last.ret # "Err"
            /\ ~last.called)
    /\ [][save_state = "DoNotSave" =>
            /\ last'.op = "create" => Len(counters') = Len(counters) + 1
            /\ (last'.op = "delete" /\ ValidSelection)
                  => Len(counters') = Len(counters) - 1
            /\ (last'.op \in {"increment", "decrement", "apply"}
                  /\ last'.ret = "Ok" /\ ValidSelection)
                  => counters' # counters]_vars

\* C11's case: in a session without a save target, of two counters created
\* the first was just deleted, the one left has been counted, and there is
\* no file
C11_Witness ==
    /\ save_state = "DoNotSave"
    /\ last.op = "delete"
    /\ selected = Some(0)
    /\ Len(counters) = 1
    /\ counters[1].count # 0
    /\ ~fs.exists

\* the names and counts of cs without the counter at index i (0-based)
Without(cs, i) ==
    [j \in 1..(Len(cs) - 1) |-> IF j <= i THEN cs[j] ELSE cs[j + 1]]

\* the names of the counters, in order
Names(cs) == [j \in 1..Len(cs) |-> cs[j].name]

\* C12: d in Normal mode with counter i selected removes exactly the counter
\* at index i: the list is one shorter and the other counters keep their
\* names, counts and order; and no step of the program reorders counters:
\* the names after a step are the names before it, or those with one name
\* appended, or those with one name taken out
C12_DeleteRemovesSelected ==
    /\ []((AtRead /\ input_mode.kind = "Normal" /\ ValidSelection) =>
            \A env \in AllEnvs :
                LET r == Dispatch(Press("d"), env) IN
                /\ r.ret # "Panic"
                /\ r.self.counters = Without(counters, selected[1]))
    /\ [][\/ Names(counters') = Names(counters)
          \/ /\ Len(counters') = Len(counters) + 1
             /\ SubSeq(Names(counters'), 1, Len(counters)) = Names(counters)
          \/ \E i \in 0..(Len(counters) - 1) :
                Names(counters') = Names(Without(counters, i))]_vars

\* C12's case: of two counters the first, at index 0, was just deleted; the
\* one left is the former second, with the empty name, while the first was
\* named "n"
C12_Witness ==
    /\ last.op = "delete"
    /\ last.ret # "Panic"
    /\ selected = Some(0)
    /\ Len(counters) = 1
    /\ counters[1].name = <<>>

\* C13: a key event whose kind is not Press changes nothing in any mode:
\* counters, selection, mode with its buffer and sign, and exit flag stay,
\* the file stays, save is not called and no error is reported
C13_NonPressIgnored ==
    /\ [](AtRead =>
            \A code \in KeyCodes : \A kind \in KeyKinds \ {"Press"} :
                LET r == Dispatch([code |-> code, kind |-> kind], AllOk) IN
                /\ r.self = Self
                /\ r.fs = fs
                /\ r.ret = "Ok"
                /\ ~r.called)
    /\ [][last'.op = "ignored" =>
            /\ UNCHANGED <<counters, selected, input_mode, should_exit, fs,
                           end_message, failed>>
            /\ last'.ret = "Ok"
            /\ ~last'.called]_vars

\* C13's case: in Adding mode with a counter selected and a text typed, an
\* Enter or l that was released or repeated has just been ignored
C13_Witness ==
    /\ last.op = "ignored"
    /\ input_mode.kind = "Adding"
    /\ input_mode.input.value # <<>>
    /\ ValidSelection

\* C14: one Esc press leads to Normal mode from every mode; Esc in NewCounter
\* or Adding mode leaves the list, the selection and the file as they are and
\* calls no save; and n, a or s pressed next in Normal mode starts with an
\* empty buffer
C14_EscapeDiscards ==
    /\ [](AtRead =>
            \A env \in AllEnvs :
                LET r == Dispatch(Press("Esc"), env) IN
                /\ r.ret = "Ok"
                /\ r.self.input_mode = [kind |-> "Normal"]
                /\ input_mode.kind # "Normal" =>
                      /\ r.self.counters = counters
                      /\ r.self.selected = selected
                      /\ r.fs = fs
                      /\ ~r.called
                /\ \A code \in {"n", "a", "s"} :
                      handle_key(r.self, Press(code), save_state, r.fs, env)
                          .self.input_mode.input = [value |-> <<>>, cursor |-> 0])
    /\ [][last'.op = "cancel" =>
            /\ input_mode' = [kind |-> "Normal"]
            /\ UNCHANGED <<counters, selected, fs, end_message>>]_vars

\* C14's case: an Esc has just discarded a typed text, with a counter in the
\* list selected
C14_Witness ==
    /\ last.op = "cancel"
    /\ last.discarded > 0
    /\ input_mode.kind = "Normal"
    /\ ValidSelection

\* C15: when the selected counter is the last of the list and d removes it,
\* the selection is None once the list has been drawn again (in an area that
\* shows the list), whether the list became empty or counters remain
C15_DeleteLastDeselects ==
    (AtRead /\ input_mode.kind = "Normal" /\ ValidSelection
        /\ selected[1] = Len(counters) - 1) =>
        \A env \in AllEnvs :
            LET r == Dispatch(Press("d"), env) IN
            /\ r.ret # "Panic"
            /\ render_list(r.self.counters, r.self.selected, FALSE) = None

\* C16: a save that fails, at whichever step, leaves the file as it was
\* before the save
C16_FailedSaveKeepsFile ==
    AtRead =>
        \A key \in Keys : \A env \in AllEnvs :
            LET r == Dispatch(key, env) IN
            r.ret = "Err" => r.fs = fs

\* C17: at every Enter in Adding mode with a counter selected and a non-empty
\* buffer, the buffer parses as a u64: it holds ASCII digits only and its
\* value is at most u64::MAX
C17_BufferParses ==
    (AtRead /\ input_mode.kind = "Adding" /\ ValidSelection
        /\ input_mode.input.value # <<>>) =>
        /\ AllAsciiDigits(input_mode.input.value)
        /\ DecimalValue(input_mode.input.value) <= U64Max
        /\ u64_from_str(input_mode.input.value) # None

\* C18: moving the selection clamps, in Normal and in Adding mode, once the
\* list has been drawn again: Down/j on the last counter stays on the last,
\* Up/k on the first stays on the first; with nothing selected and a list
\* that is not empty Down/j selects the first and Up/k the last counter; on
\* an empty list the selection stays absent
C18_MovementClamps ==
    (AtRead /\ input_mode.kind \in {"Normal", "Adding"}) =>
        \A area_empty \in BOOLEAN :
            LET after(code) ==
                    render_list(counters, Dispatch(Press(code), AllOk).self.selected,
                                area_empty)
                last_index == Len(counters) - 1 IN
            /\ (ValidSelection /\ selected[1] = last_index) =>
                  \A code \in {"Down", "j"} : after(code) = Some(last_index)
            /\ (ValidSelection /\ selected[1] = 0) =>
                  \A code \in {"Up", "k"} : after(code) = Some(0)
            /\ (selected = None /\ counters # <<>>) =>
                  /\ \A code \in {"Down", "j"} : after(code) = Some(0)
                  /\ \A code \in {"Up", "k"} : after(code) = Some(last_index)
            /\ (selected = None /\ counters = <<>>) =>
                  \A code \in {"Down", "j", "Up", "k"} : after(code) = None

\* C19: in Adding mode Up/k and Down/j change nothing but the selection, and
\* a and s nothing but the sign, to Positive and to Negative: the buffer with
\* its text, the list, the exit flag and the file stay, the mode is still
\* Adding and save is not called
C19_AddingKeysKeepBuffer ==
    /\ []((AtRead /\ input_mode.kind = "Adding") =>
            \A env \in AllEnvs :
                /\ \A code \in {"Up", "k", "Down", "j"} :
                      LET r == Dispatch(Press(code), env) IN
                      /\ r.self = [Self EXCEPT !.selected = r.self.selected]
                      /\ r.fs = fs /\ r.ret = "Ok" /\ ~r.called
                /\ \A code \in {"a", "s"} :
                      LET r == Dispatch(Press(code), env) IN
                      /\ r.self = [Self EXCEPT !.input_mode.sign =
                                      IF code = "a" THEN "Positive" ELSE "Negative"]
                      /\ r.fs = fs /\ r.ret = "Ok" /\ ~r.called)
    /\ [][(input_mode.kind = "Adding" /\ last'.op \in {"previous", "next", "sign"}) =>
            /\ input_mode'.kind = "Adding"
            /\ input_mode'.input = input_mode.input
            /\ UNCHANGED <<counters, should_exit, fs, end_message>>
            /\ ~last'.called
            /\ last'.op = "sign" => selected' = selected
            /\ last'.op # "sign" => input_mode' = input_mode]_vars

\* C19's case: in Adding mode the sign has just been set to Negative with a
\* text in the buffer and a counter selected
C19_Witness ==
    /\ last.op = "sign"
    /\ input_mode.kind = "Adding"
    /\ input_mode.sign = "Negative"
    /\ input_mode.input.value # <<>>
    /\ ValidSelection

\* C20: Enter in Adding mode with a buffer that parses as a u64 never moves
\* the selected count against the sign: with Positive the count does not
\* decrease, with Negative it does not increase
C20_SignRespected ==
    (AtRead /\ input_mode.kind = "Adding" /\ ValidSelection
        /\ u64_from_str(input_mode.input.value) # None) =>
        \A env \in AllEnvs :
            LET r == Dispatch(Press("Enter"), env)
                i == selected[1] + 1 IN
            r.ret # "Panic" =>
                IF input_mode.sign = "Positive"
                THEN r.self.counters[i].count >= counters[i].count
                ELSE r.self.counters[i].count <= counters[i].count

====
